---- MODULE Spec2Model ----
(***************************************************************************)
(* Model of the AoE4 bot's game-history multiplexer (api.js,               *)
(* enumPlayerGames / fetchPlayerGames) and of the session/window win-rate  *)
(* aggregator built on it (handlers.js, getPlayerWinRate).                 *)
(*                                                                         *)
(* Representation.  Timestamps are instants in milliseconds (what          *)
(* Date.parse yields for started_at); durations, idletime and timespan are *)
(* seconds, as in the source.  Profile ids are positive integers.          *)
(* win_rate is held in tenths of a percent (the source's value times 10)   *)
(* so that it stays an integer.                                            *)
(***************************************************************************)
EXTENDS Integers, Sequences, FiniteSets, TLC

VARIABLES
  player,        \* getPlayerWinRate argument: the subject's profile ids, in order
  options,       \* getPlayerWinRate argument: the options object (or omitted)
  history,       \* upstream: each profile's game history, newest first
  honoursSince,  \* upstream: whether it applies the `since` filter
  apc,           \* position of getPlayerWinRate
  args,          \* arguments getPlayerWinRate passed to enumPlayerGames
  stats,         \* the stats object being built
  lastgame,      \* handlers.js:51
  pendingGames,  \* handlers.js:52
  pendingGame,   \* handlers.js:53 (started_at of the remembered game, 0 = null)
  game,          \* the element the for-await loop is looking at
  gpc,           \* position of the enumPlayerGames generator
  states,        \* api.js:205, the FetchStates
  i,             \* api.js:209, the refill loop's index (1-based here)
  firstIdx,      \* index in states of the firstState that was yielded
  fetchLog,      \* history variable: every request sent upstream, in order
  yielded,       \* history variable: every game yielded, with the state it came from
  pulls,         \* history variable: number of elements the consumer asked for
  processed,     \* history variable: games that passed the stopping rule
  request,       \* handleAoe4WinRate: req.query, the request's parameters
  res,           \* handleAoe4WinRate: what was sent as the response ("" = nothing)
  hpc,           \* position of handleAoe4WinRate ("none": no handler runs)
  hplayer        \* handlers.js:258, the handler's local `player`

vars == << player, options, history, honoursSince, apc, args, stats, lastgame,
           pendingGames, pendingGame, game, gpc, states, i, firstIdx,
           fetchLog, yielded, pulls, processed, request, res, hpc,
           hplayer >>

handlerVars == << request, res, hpc, hplayer >>

(***************************************************************************)
(* JavaScript values                                                       *)
(***************************************************************************)
\* null, undefined and NaN: falsy, and not an integer.
Undefined == 0
\* A truthy value that is not an integer (1.5, "abc").
Fractional == -1

Truthy(v) == v # Undefined
IsInteger(v) == v > 0

Min(a, b) == IF a < b THEN a ELSE b
Range(s) == { s[k] : k \in 1..Len(s) }

(***************************************************************************)
(* Bounds of the model                                                     *)
(***************************************************************************)
\* Games the upstream serves per page (aoe4world serves 50).
PageSize == 2
\* Longest history of one profile.
MaxGames == 3
\* Largest counters the win-rate arithmetic is tabulated for.
MaxCount == 10

HourMs == 3600 * 1000
\* Wall-clock time of the request (Date.now()), 100 hours after the origin.
Now == 100 * HourMs

\* The profile ids used: two accounts of the subject, an opponent, bystanders.
Who == [a |-> 1, b |-> 2, opp |-> 3, other |-> 4, other2 |-> 5]
SubjectIds == { Who.a, Who.b }

(***************************************************************************)
(* Game records (spec section 3, as the upstream JSON delivers them)       *)
(***************************************************************************)
Participant(id, civ, result) ==
  [ profile_id |-> id, civilization |-> civ, result |-> result ]

GameAt(ageHours, duration, map, teams) ==
  [ started_at |-> Now - ageHours * HourMs, duration |-> duration,
    map |-> map, teams |-> teams ]

\* The games of each kind, for subject s, started ageHours ago.
MkGame(kind, s, h) ==
  CASE kind = "win" ->
         GameAt(h, 1200, "arabia",
                << <<Participant(s, "english", "win")>>,
                   <<Participant(Who.opp, "french", "loss")>> >>)
    [] kind = "loss" ->
         GameAt(h, 1800, "arabia",
                << <<Participant(Who.opp, "french", "win")>>,
                   <<Participant(s, "english", "loss")>> >>)
    [] kind = "other" ->
         GameAt(h, 600, "arabia",
                << <<Participant(s, "mongols", "none")>>,
                   <<Participant(Who.other, "french", "none")>> >>)
    [] kind = "map" ->
         GameAt(h, 900, "lipany",
                << <<Participant(s, "english", "win")>>,
                   <<Participant(Who.opp, "french", "loss")>> >>)
    [] kind = "pending" ->
         GameAt(h, 0, "arabia",
                << <<Participant(s, "english", "none")>>,
                   <<Participant(Who.opp, "french", "none")>> >>)
    [] kind = "team" ->
         GameAt(h, 2400, "arabia",
                << <<Participant(Who.other, "french", "win"),
                     Participant(s, "english", "win")>>,
                   <<Participant(Who.opp, "french", "loss"),
                     Participant(Who.other2, "french", "loss")>> >>)
    [] kind = "mates" ->
         GameAt(h, 3000, "arabia",
                << <<Participant(s, "english", "loss"),
                     Participant(Who.opp, "french", "loss")>>,
                   <<Participant(Who.other, "french", "win"),
                     Participant(Who.other2, "french", "win")>> >>)
    [] kind = "teamloss" ->
         GameAt(h, 2700, "arabia",
                << <<Participant(Who.opp, "french", "win"),
                     Participant(Who.other2, "french", "win")>>,
                   <<Participant(Who.other, "french", "loss"),
                     Participant(s, "english", "loss")>> >>)
    [] kind = "teampending" ->
         GameAt(h, 0, "arabia",
                << <<Participant(s, "english", "none"),
                     Participant(Who.other, "french", "none")>>,
                   <<Participant(Who.opp, "french", "none"),
                     Participant(Who.other2, "french", "none")>> >>)
    [] kind = "pendingother" ->
         GameAt(h, 0, "arabia",
                << <<Participant(s, "english", "none")>>,
                   <<Participant(Who.other, "french", "none")>> >>)
    [] OTHER ->  \* "absent": the subject does not take part
         GameAt(h, 1500, "arabia",
                << <<Participant(Who.other, "english", "win")>>,
                   <<Participant(Who.opp, "french", "loss")>> >>)

Pool(kinds, ages, s) == { MkGame(k, s, h) : k \in kinds, h \in ages }

\* Histories over a pool: at most n games, newest first.
Extend(h, pool) ==
  { Append(h, g) :
      g \in { x \in pool : Len(h) = 0 \/ h[Len(h)].started_at >= x.started_at } }

RECURSIVE Histories(_, _)
Histories(pool, n) ==
  IF n = 0 THEN { <<>> }
  ELSE LET shorter == Histories(pool, n - 1)
       IN  shorter \cup
           UNION { Extend(h, pool) : h \in { x \in shorter : Len(x) = n - 1 } }

(***************************************************************************)
(* The upstream source (spec section 6, fetchGamesPage)                    *)
(***************************************************************************)
HasPlayer(g, id) ==
  \E t \in 1..Len(g.teams) : \E k \in 1..Len(g.teams[t]) :
    g.teams[t][k].profile_id = id

\* The games of a profile that match a request's filters, newest first.
Served(profileId, opponentFilter, sinceFilter) ==
  LET Match(g) ==
        /\ (Truthy(opponentFilter) => HasPlayer(g, opponentFilter))
        /\ ((Truthy(sinceFilter) /\ honoursSince) => g.started_at >= sinceFilter)
  IN  IF profileId \in DOMAIN history
        THEN SelectSeq(history[profileId], Match)
        ELSE << >>

\* A successful response: page is 1-based, offset counts the games on the
\* earlier pages, total_count the matching games.
UpstreamPage(req) ==
  LET all == Served(req.profile_id, req.opponent_profile_id, req.since)
      off == (req.page - 1) * PageSize
  IN  [ kind |-> "page",
        games |-> SubSeq(all, off + 1, Min(off + PageSize, Len(all))),
        offset |-> off, total_count |-> Len(all), page |-> req.page ]

\* What a fetch can end in: a page, a failure (fetchAOE4World returns null on
\* a network error or a status other than 200), or a payload without games.
Outcomes == { "page", "null", "nogames" }

(***************************************************************************)
(* api.js: fetchAOE4World, fetchPlayerGames                                *)
(***************************************************************************)
fetchAOE4World(req, outcome) ==
  IF outcome = "page" THEN UpstreamPage(req) ELSE [ kind |-> outcome ]

\* The query fetchPlayerGames builds: the opponent and since parameters are
\* sent only when truthy.
Request(profileId, opponentProfileId, since, page) ==
  [ profile_id |-> profileId,
    opponent_profile_id |->
      IF Truthy(opponentProfileId) THEN opponentProfileId ELSE Undefined,
    since |-> IF Truthy(since) THEN since ELSE Undefined,
    page |-> page ]

fetchPlayerGames(profileId, opponentProfileId, since, page, outcome) ==
  LET json == fetchAOE4World(Request(profileId, opponentProfileId, since, page),
                             outcome)
  IN  CASE json.kind = "null" -> json
        [] json.kind = "nogames" ->
             [ kind |-> "nogames", profile_id |-> profileId,
               opponent_profile_id |-> opponentProfileId, index |-> 0 ]
        [] OTHER ->
             [ kind |-> "page", games |-> json.games, offset |-> json.offset,
               total_count |-> json.total_count, page |-> json.page,
               profile_id |-> profileId,
               opponent_profile_id |-> opponentProfileId, index |-> 0 ]

(***************************************************************************)
(* api.js: enumPlayerGames                                                 *)
(***************************************************************************)
InvalidArgumentsFirstOnly(profileIds, opponentProfileId) ==
  \/ Len(profileIds) > 0 /\ ~IsInteger(profileIds[1])
  \/ Truthy(opponentProfileId) /\ ~IsInteger(opponentProfileId)

\* api.js:201-202
InvalidArguments(profileIds, opponentProfileId) ==
  \/ \E k \in 1..Len(profileIds) : ~IsInteger(profileIds[k])
  \/ Truthy(opponentProfileId) /\ ~IsInteger(opponentProfileId)

\* Reading s.index and s.games.length throws a TypeError when s is null or
\* has no games.
Readable(s) == s.kind = "page"

NeedsFetchAlways(s) == s.index >= Len(s.games)

NeedsFetchEarly(s) ==
  s.index >= Len(s.games) - 1 /\ (s.offset + s.index) < s.total_count

NeedsFetchNever(s) ==
  s.index > Len(s.games) /\ (s.offset + s.index) < s.total_count

\* api.js:211
NeedsFetch(s) ==
  s.index >= Len(s.games) /\ (s.offset + s.index) < s.total_count

LaterReversed(prevTime, sTime) == prevTime > sTime

\* api.js:226
Later(prevTime, sTime) == prevTime < sTime

\* api.js:217-231, the reducer folded over states[1..k]; 0 stands for null.
RECURSIVE FirstState(_, _)
FirstState(sts, k) ==
  IF k = 0 THEN 0
  ELSE LET prev == FirstState(sts, k - 1)
           s == sts[k]
       IN  IF s.index >= Len(s.games) THEN prev
           ELSE IF prev = 0 THEN k
           ELSE IF Later(sts[prev].games[sts[prev].index + 1].started_at,
                         s.games[s.index + 1].started_at)
                THEN k
                ELSE prev

Throw ==
  /\ gpc' = "threw"
  /\ apc' = "rejected"

\* The resumption without the step of api.js:240.
PullWithoutAdvance ==
  /\ apc = "next"
  /\ gpc \in { "start", "yielded" }
  /\ pulls' = pulls + 1
  /\ IF gpc = "start"
       THEN /\ gpc' = "begin"
            /\ UNCHANGED << states, i >>
       ELSE /\ gpc' = "refill"
            /\ i' = 1
            /\ UNCHANGED states
  /\ UNCHANGED handlerVars
  /\ UNCHANGED << player, options, history, honoursSince, apc, args, stats,
                  lastgame, pendingGames, pendingGame, game, firstIdx,
                  fetchLog, yielded, processed >>

\* handlers.js:55, the for-await loop asks the generator for its next element.
\* A generator suspended at its yield resumes with api.js:240.
Pull ==
  /\ apc = "next"
  /\ gpc \in { "start", "yielded" }
  /\ pulls' = pulls + 1
  /\ IF gpc = "start"
       THEN /\ gpc' = "begin"
            /\ UNCHANGED << states, i >>
       ELSE /\ states' = [ states EXCEPT ![firstIdx].index = @ + 1 ]
            /\ gpc' = "refill"
            /\ i' = 1
  /\ UNCHANGED handlerVars
  /\ UNCHANGED << player, options, history, honoursSince, apc, args, stats,
                  lastgame, pendingGames, pendingGame, game, firstIdx,
                  fetchLog, yielded, processed >>

\* api.js:199-205: the argument check, then the first page of every profile,
\* fetched in parallel.
GenStart ==
  /\ gpc = "begin"
  /\ IF InvalidArguments(args.profileIds, args.opponentProfileId)
       THEN /\ gpc' = "done"
            /\ apc' = "finish"
            /\ UNCHANGED << states, i, fetchLog >>
       ELSE \E outcome \in [ 1..Len(args.profileIds) -> Outcomes ] :
              /\ states' = [ k \in 1..Len(args.profileIds) |->
                               fetchPlayerGames(args.profileIds[k],
                                                args.opponentProfileId,
                                                args.since, 1, outcome[k]) ]
              /\ fetchLog' = fetchLog \o
                               [ k \in 1..Len(args.profileIds) |->
                                   Request(args.profileIds[k],
                                           args.opponentProfileId,
                                           args.since, 1) ]
              /\ gpc' = "refill"
              /\ i' = 1
              /\ UNCHANGED apc
  /\ UNCHANGED handlerVars
  /\ UNCHANGED << player, options, history, honoursSince, args, stats,
                  lastgame, pendingGames, pendingGame, game, firstIdx,
                  yielded, pulls, processed >>

\* api.js:209-214, one iteration of the refill loop.
GenRefill ==
  /\ gpc = "refill"
  /\ IF i > Len(states)
       THEN /\ gpc' = "select"
            /\ UNCHANGED << apc, states, i, fetchLog >>
       ELSE IF ~Readable(states[i])
       THEN /\ Throw
            /\ UNCHANGED << states, i, fetchLog >>
       ELSE IF NeedsFetch(states[i])
       THEN \E outcome \in Outcomes :
              /\ states' = [ states EXCEPT ![i] =
                               fetchPlayerGames(states[i].profile_id,
                                                args.opponentProfileId,
                                                args.since,
                                                states[i].page + 1, outcome) ]
              /\ fetchLog' = Append(fetchLog,
                                    Request(states[i].profile_id,
                                            args.opponentProfileId,
                                            args.since, states[i].page + 1))
              /\ i' = i + 1
              /\ UNCHANGED << apc, gpc >>
       ELSE /\ i' = i + 1
            /\ UNCHANGED << apc, gpc, states, fetchLog >>
  /\ UNCHANGED handlerVars
  /\ UNCHANGED << player, options, history, honoursSince, args, stats,
                  lastgame, pendingGames, pendingGame, game, firstIdx,
                  yielded, pulls, processed >>

\* api.js:217-238: pick the state with the latest game and yield it, or end.
GenSelect ==
  /\ gpc = "select"
  /\ IF \E k \in 1..Len(states) : ~Readable(states[k])
       THEN /\ Throw
            /\ UNCHANGED << game, firstIdx, yielded >>
       ELSE LET first == FirstState(states, Len(states))
            IN  IF first = 0
                  THEN /\ gpc' = "done"
                       /\ apc' = "finish"
                       /\ UNCHANGED << game, firstIdx, yielded >>
                  ELSE LET g == states[first].games[states[first].index + 1]
                       IN  /\ game' = g
                           /\ firstIdx' = first
                           /\ yielded' = Append(yielded,
                                                [ game |-> g, src |-> first ])
                           /\ gpc' = "yielded"
                           /\ apc' = "body"
  /\ UNCHANGED handlerVars
  /\ UNCHANGED << player, options, history, honoursSince, args, stats,
                  lastgame, pendingGames, pendingGame, states, i,
                  fetchLog, pulls, processed >>

(***************************************************************************)
(* handlers.js: getPlayerWinRate                                           *)
(***************************************************************************)
\* handlers.js:24-26: the defaults apply only when options is omitted.
Opts ==
  IF options.given THEN options
  ELSE [ given |-> FALSE, opponent |-> Undefined, map |-> "", civ |-> "",
         idletime |-> 4 * 3600, timespan |-> Undefined,
         includeTeamGames |-> FALSE ]

\* handlers.js:29
Since ==
  IF Truthy(Opts.timespan) THEN Now - Opts.timespan * 1000 ELSE Undefined

OpponentFilterAlways == Opts.opponent

\* handlers.js:33: the opponent is pushed to the server only with a start date.
OpponentFilter == IF Truthy(Since) THEN Opts.opponent ELSE Undefined

InitialStatsNoRate ==
  [ games_count |-> 0, wins_count |-> 0, losses_count |-> 0,
    first_game_at |-> 0, last_game_at |-> 0, win_rate |-> 0,
    duration |-> 0, pending_games |-> Undefined,
    pending_game_started_at |-> Undefined ]

\* handlers.js:36-48; win_rate 100 is 1000 tenths.
InitialStats ==
  [ games_count |-> 0, wins_count |-> 0, losses_count |-> 0,
    first_game_at |-> 0, last_game_at |-> 0, win_rate |-> 1000,
    duration |-> 0, pending_games |-> Undefined,
    pending_game_started_at |-> Undefined ]

IdleGapReached(last, gametime, idletime) ==
  Truthy(idletime) /\ (last - gametime) >= idletime * 1000

\* handlers.js:60. An idletime of Undefined is undefined or NaN: the product
\* is NaN and the comparison is false.
IdleGapExceeded(last, gametime, idletime) ==
  Truthy(idletime) /\ (last - gametime) > idletime * 1000

\* handlers.js:63
OutsideWindow(gametime, timespan) == (Now - gametime) > timespan * 1000

StopRuleBoth(g) ==
  \/ Truthy(lastgame) /\ IdleGapExceeded(lastgame, g.started_at, Opts.idletime)
  \/ Truthy(Opts.timespan) /\ OutsideWindow(g.started_at, Opts.timespan)

\* handlers.js:59-65
StopRule(g) ==
  IF ~Truthy(Opts.timespan)
    THEN Truthy(lastgame) /\ IdleGapExceeded(lastgame, g.started_at, Opts.idletime)
    ELSE OutsideWindow(g.started_at, Opts.timespan)

\* handlers.js:70, game.teams.flat().length
RECURSIVE NumPlayers(_, _)
NumPlayers(teams, t) ==
  IF t = 0 THEN 0 ELSE NumPlayers(teams, t - 1) + Len(teams[t])

TeamGameSkippedInverted(g) ==
  NumPlayers(g.teams, Len(g.teams)) > 2 /\ Opts.includeTeamGames

\* handlers.js:71
TeamGameSkipped(g) ==
  NumPlayers(g.teams, Len(g.teams)) > 2 /\ ~Opts.includeTeamGames

NoOne == Participant(Undefined, "", "")

\* team.filter(p => ...)[0]?.player: the first participant with one of ids.
FirstOf(team, ids) ==
  IF \E k \in 1..Len(team) : team[k].profile_id \in ids
    THEN team[CHOOSE k \in 1..Len(team) :
                /\ team[k].profile_id \in ids
                /\ \A j \in 1..(k - 1) : team[j].profile_id \notin ids]
    ELSE NoOne

\* The loop over the teams with the opponent looked for on every team.
RECURSIVE MatchTeamsSameTeam(_, _)
MatchTeamsSameTeam(g, t) ==
  IF t = 0 THEN [ playerState |-> NoOne, opponentState |-> NoOne ]
  ELSE LET m == MatchTeamsSameTeam(g, t - 1)
           teamPlayer == FirstOf(g.teams[t], Range(player))
           teamOpponent == IF Truthy(Opts.opponent)
                             THEN FirstOf(g.teams[t], { Opts.opponent })
                             ELSE NoOne
       IN  [ playerState |-> IF Truthy(teamPlayer.profile_id)
                               THEN teamPlayer ELSE m.playerState,
             opponentState |-> IF Truthy(teamOpponent.profile_id)
                                 THEN teamOpponent ELSE m.opponentState ]

\* handlers.js:75-86, the loop over the teams 1..t.
RECURSIVE MatchTeams(_, _)
MatchTeams(g, t) ==
  IF t = 0 THEN [ playerState |-> NoOne, opponentState |-> NoOne ]
  ELSE LET m == MatchTeams(g, t - 1)
           teamPlayer == FirstOf(g.teams[t], Range(player))
           teamOpponent == IF Truthy(Opts.opponent)
                             THEN FirstOf(g.teams[t], { Opts.opponent })
                             ELSE NoOne
       IN  IF Truthy(teamPlayer.profile_id)
             THEN [ m EXCEPT !.playerState = teamPlayer ]
           ELSE IF Truthy(teamOpponent.profile_id)
             THEN [ m EXCEPT !.opponentState = teamOpponent ]
           ELSE m

RecentlyStartedAlways(g) == TRUE

\* handlers.js:100
RecentlyStarted(g) == g.started_at > Now - 3 * 3600 * 1000

CountDraws(st, g, playerState) ==
  [ st EXCEPT
      !.last_game_at = IF ~Truthy(@) THEN g.started_at + g.duration * 1000 ELSE @,
      !.first_game_at = g.started_at,
      !.games_count = @ + 1,
      !.duration = @ + g.duration,
      !.wins_count = IF playerState.result # "loss" THEN @ + 1 ELSE @,
      !.losses_count = IF playerState.result = "loss" THEN @ + 1 ELSE @ ]

CountLastOverwritten(st, g, playerState) ==
  [ st EXCEPT
      !.last_game_at = g.started_at + g.duration * 1000,
      !.first_game_at = g.started_at,
      !.games_count = @ + 1,
      !.duration = @ + g.duration,
      !.wins_count = IF playerState.result = "win" THEN @ + 1 ELSE @,
      !.losses_count = IF playerState.result = "loss" THEN @ + 1 ELSE @ ]

\* handlers.js:118-129
Count(st, g, playerState) ==
  [ st EXCEPT
      !.last_game_at = IF ~Truthy(@) THEN g.started_at + g.duration * 1000 ELSE @,
      !.first_game_at = g.started_at,
      !.games_count = @ + 1,
      !.duration = @ + g.duration,
      !.wins_count = IF playerState.result = "win" THEN @ + 1 ELSE @,
      !.losses_count = IF playerState.result = "loss" THEN @ + 1 ELSE @ ]

MathFloor(n, d) == n \div d

\* Math.round(n / d) for n >= 0, d > 0: halves round up.
MathRound(n, d) == (2 * n + d) \div (2 * d)

\* handlers.js:137-139, in tenths of a percent.
WinRate(st) ==
  IF st.losses_count # 0
    THEN MathRound(1000 * st.wins_count, st.wins_count + st.losses_count)
    ELSE st.win_rate

\* handlers.js:24-53: the call of enumPlayerGames creates the generator, whose
\* body does not run before the first element is asked for.
Call ==
  /\ apc = "call"
  /\ args' = [ profileIds |-> player, opponentProfileId |-> OpponentFilter,
               since |-> Since ]
  /\ stats' = InitialStats
  /\ lastgame' = 0
  /\ pendingGames' = 0
  /\ pendingGame' = Undefined
  /\ gpc' = "start"
  /\ apc' = "next"
  /\ UNCHANGED handlerVars
  /\ UNCHANGED << player, options, history, honoursSince, game, states, i,
                  firstIdx, fetchLog, yielded, pulls, processed >>

\* The loop body going on to the next game where the stopping rule fires.
ConsumeWithoutBreak ==
  /\ apc = "body"
  /\ IF StopRule(game)
       THEN /\ apc' = "next"
            /\ UNCHANGED << gpc, stats, lastgame, pendingGames, pendingGame,
                            processed >>
       ELSE /\ apc' = "next"
            /\ lastgame' = game.started_at
            /\ processed' = Append(processed, game)
            /\ UNCHANGED gpc
            /\ LET m == MatchTeams(game, Len(game.teams))
               IN  IF \/ TeamGameSkipped(game)
                      \/ ~Truthy(m.playerState.profile_id)
                      \/ Truthy(Opts.opponent)
                           /\ ~Truthy(m.opponentState.profile_id)
                     THEN UNCHANGED << stats, pendingGames, pendingGame >>
                   ELSE IF ~Truthy(game.duration)
                     THEN /\ IF RecentlyStarted(game)
                               THEN /\ pendingGame' =
                                         IF ~Truthy(pendingGame)
                                           THEN game.started_at
                                           ELSE pendingGame
                                    /\ pendingGames' = pendingGames + 1
                               ELSE UNCHANGED << pendingGames, pendingGame >>
                          /\ UNCHANGED stats
                   ELSE IF \/ Opts.civ # "" /\ m.playerState.civilization # Opts.civ
                           \/ Opts.map # "" /\ game.map # Opts.map
                     THEN UNCHANGED << stats, pendingGames, pendingGame >>
                   ELSE /\ stats' = Count(stats, game, m.playerState)
                        /\ UNCHANGED << pendingGames, pendingGame >>
  /\ UNCHANGED handlerVars
  /\ UNCHANGED << player, options, history, honoursSince, args, game, states,
                  i, firstIdx, fetchLog, yielded, pulls >>

\* The loop body with lastgame written after the filters, for counted games
\* only.
ConsumeFilterFirst ==
  /\ apc = "body"
  /\ IF StopRule(game)
       THEN /\ apc' = "finish"
            /\ gpc' = "closed"
            /\ UNCHANGED << stats, lastgame, pendingGames, pendingGame,
                            processed >>
       ELSE /\ apc' = "next"
            /\ processed' = Append(processed, game)
            /\ UNCHANGED gpc
            /\ LET m == MatchTeams(game, Len(game.teams))
               IN  IF \/ TeamGameSkipped(game)
                      \/ ~Truthy(m.playerState.profile_id)
                      \/ Truthy(Opts.opponent)
                           /\ ~Truthy(m.opponentState.profile_id)
                     THEN UNCHANGED << stats, lastgame, pendingGames,
                                       pendingGame >>
                   ELSE IF ~Truthy(game.duration)
                     THEN /\ IF RecentlyStarted(game)
                               THEN /\ pendingGame' =
                                         IF ~Truthy(pendingGame)
                                           THEN game.started_at
                                           ELSE pendingGame
                                    /\ pendingGames' = pendingGames + 1
                               ELSE UNCHANGED << pendingGames, pendingGame >>
                          /\ UNCHANGED << stats, lastgame >>
                   ELSE IF \/ Opts.civ # "" /\ m.playerState.civilization # Opts.civ
                           \/ Opts.map # "" /\ game.map # Opts.map
                     THEN UNCHANGED << stats, lastgame, pendingGames,
                                       pendingGame >>
                   ELSE /\ stats' = Count(stats, game, m.playerState)
                        /\ lastgame' = game.started_at
                        /\ UNCHANGED << pendingGames, pendingGame >>
  /\ UNCHANGED handlerVars
  /\ UNCHANGED << player, options, history, honoursSince, args, game, states,
                  i, firstIdx, fetchLog, yielded, pulls >>

\* handlers.js:55-130, the loop body for one game. A break makes the
\* for-await loop close the generator.
Consume ==
  /\ apc = "body"
  /\ IF StopRule(game)
       THEN /\ apc' = "finish"
            /\ gpc' = "closed"
            /\ UNCHANGED << stats, lastgame, pendingGames, pendingGame,
                            processed >>
       ELSE /\ apc' = "next"
            /\ lastgame' = game.started_at
            /\ processed' = Append(processed, game)
            /\ UNCHANGED gpc
            /\ LET m == MatchTeams(game, Len(game.teams))
               IN  IF \/ TeamGameSkipped(game)
                      \/ ~Truthy(m.playerState.profile_id)
                      \/ Truthy(Opts.opponent)
                           /\ ~Truthy(m.opponentState.profile_id)
                     THEN UNCHANGED << stats, pendingGames, pendingGame >>
                   ELSE IF ~Truthy(game.duration)
                     THEN /\ IF RecentlyStarted(game)
                               THEN /\ pendingGame' =
                                         IF ~Truthy(pendingGame)
                                           THEN game.started_at
                                           ELSE pendingGame
                                    /\ pendingGames' = pendingGames + 1
                               ELSE UNCHANGED << pendingGames, pendingGame >>
                          /\ UNCHANGED stats
                   ELSE IF \/ Opts.civ # "" /\ m.playerState.civilization # Opts.civ
                           \/ Opts.map # "" /\ game.map # Opts.map
                     THEN UNCHANGED << stats, pendingGames, pendingGame >>
                   ELSE /\ stats' = Count(stats, game, m.playerState)
                        /\ UNCHANGED << pendingGames, pendingGame >>
  /\ UNCHANGED handlerVars
  /\ UNCHANGED << player, options, history, honoursSince, args, game, states,
                  i, firstIdx, fetchLog, yielded, pulls >>

\* handlers.js:132-141
Finish ==
  /\ apc = "finish"
  /\ stats' = [ stats EXCEPT
                  !.pending_games = pendingGames,
                  !.pending_game_started_at = pendingGame,
                  !.win_rate = WinRate(stats) ]
  /\ apc' = "returned"
  /\ UNCHANGED handlerVars
  /\ UNCHANGED << player, options, history, honoursSince, args, lastgame,
                  pendingGames, pendingGame, game, gpc, states, i, firstIdx,
                  fetchLog, yielded, pulls, processed >>

Next ==
  \/ Call
  \/ Pull
  \/ GenStart
  \/ GenRefill
  \/ GenSelect
  \/ Consume
  \/ Finish

(***************************************************************************)
(* handlers.js: handleAoe4WinRate                                          *)
(*                                                                         *)
(* A query string is held as the sequence of its words, a comma-separated  *)
(* parameter as the sequence of its items, an absent parameter as "" or    *)
(* << >>. A player object is held as its profile id with a flag telling it *)
(* from null; the local `player` is null or an array of such.              *)
(***************************************************************************)
NullRef == [ isNull |-> TRUE, items |-> << >> ]
Array(items) == [ isNull |-> FALSE, items |-> items ]

NoPlayer == [ found |-> FALSE, profile_id |-> Undefined ]
PlayerObject(id) == [ found |-> TRUE, profile_id |-> id ]

NoRequest ==
  [ query |-> << >>, format |-> "", player |-> << >>, timespan |-> "",
    idletime |-> "" ]

Digits == { "1", "2", "4", "24" }

\* parseInt of a word: NaN for a word that does not start with a digit.
parseInt(w) ==
  CASE w = "1" -> 1
    [] w = "2" -> 2
    [] w = "4" -> 4
    [] w = "24" -> 24
    [] OTHER -> Undefined

\* handlers.js:6-20, in hours; null for an unknown unit.
parseTimespan(number, suffix) ==
  CASE suffix \in { "h", "hour", "hours" } -> number
    [] suffix \in { "d", "day", "days" } -> number * 24
    [] suffix \in { "w", "wk", "wks", "week", "weeks" } -> number * 24 * 7
    [] suffix \in { "m", "month", "months" } -> number * 24 * 30
    [] suffix \in { "y", "year", "years" } -> number * 24 * 365
    [] OTHER -> Undefined

\* formatters.getFormatter: the formatter of a known format, or nothing.
getFormatter(format) == format \in { "text" }

\* metadata.parseMap(word)?.name and metadata.parseCiv(word)?.id; "" for null.
parseMap(word) == IF word \in { "arabia", "lipany" } THEN word ELSE ""
parseCiv(word) == IF word \in { "english", "mongols" } THEN word ELSE ""

\* Seconds since the start of the latest season in metadata.seasons.
SeasonSpan == 48 * 3600

\* The players the upstream knows by name.
Registered(name) ==
  CASE name = << "p" >> -> Who.a
    [] name = << "o" >> -> Who.opp
    [] OTHER -> Undefined

\* api.js:139-146 with api.js:38-88: the first player the search returns, or
\* null when there is none or the request fails.
findPlayerByQuery(name, ok) ==
  IF ok /\ Truthy(Registered(name)) THEN PlayerObject(Registered(name))
  ELSE NoPlayer

\* api.js:148-162
getPlayer(profileId, ok) ==
  IF ~IsInteger(profileId) THEN NoPlayer
  ELSE IF ok THEN PlayerObject(profileId)
  ELSE NoPlayer

Drop(q, n) == SubSeq(q, 1, Len(q) - n)

\* handlers.js:229-249
InitialParse ==
  [ query |-> request.query, error |-> "",
    opts |-> [ given |-> TRUE, opponent |-> Undefined, map |-> "", civ |-> "",
               idletime |-> IF request.idletime # ""
                              THEN parseInt(request.idletime) * 3600
                              ELSE 4 * 3600,
               timespan |-> IF request.timespan = "season" THEN SeasonSpan
                            ELSE IF request.timespan # ""
                              THEN parseInt(request.timespan) * 3600
                              ELSE Undefined,
               includeTeamGames |-> FALSE ] ]

\* handlers.js:260-268, /^(?:(.+?) )?last (\d+) ?([a-z]+)$/. The product with
\* 3600 is a number (0 for null), never null: the test of line 264 is never
\* true and no error is sent for an unknown unit.
StripLastSpan(ps) ==
  LET q == ps.query
      n == Len(q)
  IN  IF n >= 3 /\ q[n - 2] = "last" /\ q[n - 1] \in Digits /\ q[n] \notin Digits
        THEN [ ps EXCEPT !.query = Drop(q, 3),
                         !.opts.timespan =
                           parseTimespan(parseInt(q[n - 1]), q[n]) * 3600 ]
        ELSE ps

\* handlers.js:269-280, /^(?:(.+?) )?last (session|season)$/
StripLastSession(ps) ==
  LET q == ps.query
      n == Len(q)
  IN  IF n >= 2 /\ q[n - 1] = "last" /\ q[n] \in { "session", "season" }
        THEN [ ps EXCEPT !.query = Drop(q, 2),
                         !.opts.timespan = IF q[n] = "session" THEN Undefined
                                           ELSE SeasonSpan ]
        ELSE ps

\* handlers.js:281-289, /^(?:(.+?) )?on (\w+)$/
StripOnMap(ps) ==
  LET q == ps.query
      n == Len(q)
  IN  IF n >= 2 /\ q[n - 1] = "on"
        THEN IF parseMap(q[n]) = ""
               THEN [ ps EXCEPT !.query = Drop(q, 2),
                                !.error = "Invalid map specified" ]
               ELSE [ ps EXCEPT !.query = Drop(q, 2),
                                !.opts.map = parseMap(q[n]) ]
        ELSE ps

\* handlers.js:290-298, /^(?:(.+?) )?with (\w+)$/; skipped after a return.
StripWithCiv(ps) ==
  LET q == ps.query
      n == Len(q)
  IN  IF ps.error = "" /\ n >= 2 /\ q[n - 1] = "with"
        THEN IF parseCiv(q[n]) = ""
               THEN [ ps EXCEPT !.query = Drop(q, 2),
                                !.error = "Invalid civ specified" ]
               ELSE [ ps EXCEPT !.query = Drop(q, 2),
                                !.opts.civ = parseCiv(q[n]) ]
        ELSE ps

\* query.split(/ ?vs /) cuts at every "vs" that another word follows.
VsAt(q) == { k \in 1..(Len(q) - 1) : q[k] = "vs" }

\* handlers.js:308-309 and 321-322
PlayerFromParameter(ok) ==
  LET profileIds == [ k \in 1..Len(request.player) |-> parseInt(request.player[k]) ]
  IN  Array(<< getPlayer(profileIds[1], ok) >>
              \o [ k \in 1..(Len(profileIds) - 1) |->
                     PlayerObject(profileIds[k + 1]) ])

\* handlers.js:299-323; okPlayer and okOpponent tell whether the lookups
\* deliver.
Resolve(ps, okPlayer, okOpponent) ==
  LET q == ps.query
  IN  IF ps.error # ""
        THEN [ player |-> NullRef, opts |-> ps.opts, error |-> ps.error ]
      ELSE IF Len(q) > 0
        THEN IF Cardinality(VsAt(q)) = 1
               THEN LET k == CHOOSE j \in VsAt(q) : TRUE
                        before == SubSeq(q, 1, k - 1)
                        after == SubSeq(q, k + 1, Len(q))
                        opponent == findPlayerByQuery(after, okOpponent)
                    IN  [ player |->
                            IF Len(before) > 0
                              THEN Array(<< findPlayerByQuery(before, okPlayer) >>)
                            ELSE IF request.player # << >>
                              THEN PlayerFromParameter(okPlayer)
                            ELSE NullRef,
                          opts |-> [ ps.opts EXCEPT
                                       !.opponent = opponent.profile_id ],
                          error |-> IF opponent.found THEN ""
                                    ELSE "No player found for opponent" ]
               ELSE [ player |-> Array(<< findPlayerByQuery(q, okPlayer) >>),
                      opts |-> ps.opts, error |-> "" ]
      ELSE [ player |-> IF request.player # << >>
                          THEN PlayerFromParameter(okPlayer)
                          ELSE NullRef,
             opts |-> ps.opts, error |-> "" ]

\* handlers.js:228-323: the formatter, the suffixes of the query, the lookups
\* of subject and opponent.
HandleRequest ==
  /\ hpc = "start"
  /\ IF ~getFormatter(request.format)
       THEN /\ res' = "Invalid formatter specified"
            /\ hpc' = "done"
            /\ UNCHANGED << hplayer, options >>
       ELSE \E okPlayer, okOpponent \in BOOLEAN :
              LET r == Resolve(StripWithCiv(StripOnMap(StripLastSession(
                                 StripLastSpan(InitialParse)))),
                               okPlayer, okOpponent)
              IN  /\ options' = r.opts
                  /\ hplayer' = r.player
                  /\ IF r.error # ""
                       THEN res' = r.error /\ hpc' = "done"
                       ELSE res' = res /\ hpc' = "resolved"
  /\ UNCHANGED << request, player, history, honoursSince, apc, args, stats,
                  lastgame, pendingGames, pendingGame, game, gpc, states, i,
                  firstIdx, fetchLog, yielded, pulls, processed >>

\* handlers.js:325-326 and 334-336. Reading player.length of null throws a
\* TypeError, which rejects the handler's promise.
HandleDispatch ==
  /\ hpc = "resolved"
  /\ IF hplayer.isNull
       THEN /\ hpc' = "threw"
            /\ UNCHANGED << res, player, apc >>
       ELSE IF Len(hplayer.items) > 0 /\ hplayer.items[1].found
         THEN /\ player' = [ k \in 1..Len(hplayer.items) |->
                               hplayer.items[k].profile_id ]
              /\ apc' = "call"
              /\ hpc' = "awaiting"
              /\ UNCHANGED res
         ELSE /\ res' = "No player found"
              /\ hpc' = "done"
              /\ UNCHANGED << player, apc >>
  /\ UNCHANGED << request, hplayer, options, history, honoursSince, args, stats,
                  lastgame, pendingGames, pendingGame, game, gpc, states, i,
                  firstIdx, fetchLog, yielded, pulls, processed >>

\* handlers.js:326-333: the await of getPlayerWinRate, which always resolves
\* to a stats object or rejects.
HandleSend ==
  /\ hpc = "awaiting"
  /\ apc \in { "returned", "rejected" }
  /\ IF apc = "returned"
       THEN res' = "winrate" /\ hpc' = "done"
       ELSE res' = res /\ hpc' = "threw"
  /\ UNCHANGED << request, hplayer, player, options, history, honoursSince, apc,
                  args, stats, lastgame, pendingGames, pendingGame, game, gpc,
                  states, i, firstIdx, fetchLog, yielded, pulls, processed >>

NextHandler ==
  \/ HandleRequest
  \/ HandleDispatch
  \/ HandleSend
  \/ Call
  \/ Pull
  \/ GenStart
  \/ GenRefill
  \/ GenSelect
  \/ Consume
  \/ Finish

(***************************************************************************)
(* Initial states: a request and an upstream                               *)
(***************************************************************************)
OptionsOf(opponents, timespans, idletimes, teamFlags, civs, maps) ==
  [ given : { TRUE }, opponent : opponents, map : maps, civ : civs,
    idletime : idletimes, timespan : timespans, includeTeamGames : teamFlags ]

Omitted ==
  [ given |-> FALSE, opponent |-> Undefined, map |-> "", civ |-> "",
    idletime |-> Undefined, timespan |-> Undefined,
    includeTeamGames |-> FALSE ]

InitWith(playerLists, optionSet, gamesOf, sinceModes) ==
  /\ player \in playerLists
  /\ options \in optionSet
  /\ honoursSince \in sinceModes
  /\ \E ha \in IF Who.a \in Range(player)
                 THEN Histories(gamesOf[Who.a], MaxGames)
                 ELSE { <<>> } :
       \E hb \in IF Who.b \in Range(player)
                   THEN Histories(gamesOf[Who.b], MaxGames)
                   ELSE { <<>> } :
         history = [ p \in SubjectIds |-> IF p = Who.a THEN ha ELSE hb ]
  /\ request = NoRequest
  /\ res = ""
  /\ hpc = "none"
  /\ hplayer = NullRef
  /\ apc = "call"
  /\ args = [ profileIds |-> << >>, opponentProfileId |-> Undefined,
              since |-> Undefined ]
  /\ stats = InitialStats
  /\ lastgame = 0
  /\ pendingGames = 0
  /\ pendingGame = Undefined
  /\ game = GameAt(0, 0, "", << >>)
  /\ gpc = "idle"
  /\ states = << >>
  /\ i = 1
  /\ firstIdx = 0
  /\ fetchLog = << >>
  /\ yielded = << >>
  /\ pulls = 0
  /\ processed = << >>

\* Requests for one or two profiles, some with a malformed id, over plain
\* 1v1 games that differ in their start time.
MergeGames == [ s \in SubjectIds |-> Pool({ "win" }, { 1, 2, 30 }, s) ]

Init ==
  InitWith({ <<Who.a>>, <<Who.a, Who.b>>, <<Who.b, Who.a>>,
             <<Who.a, Undefined>>, <<Fractional, Who.b>> },
           OptionsOf({ Undefined, Who.opp, Fractional },
                     { Undefined, 24 * 3600 }, { 4 * 3600 }, { FALSE },
                     { "" }, { "" }),
           MergeGames, BOOLEAN)

Spec == Init /\ [][Next]_vars

\* Requests in session and in window mode, over games against the opponent
\* and against someone else, spread over the last 30 hours.
SessionGames ==
  [ s \in SubjectIds |-> Pool({ "win", "other" }, { 1, 2, 5, 7, 30 }, s) ]
SessionGamesOfTwo == [ s \in SubjectIds |-> Pool({ "win" }, { 1, 2, 7 }, s) ]

SessionOptions ==
  OptionsOf({ Undefined, Who.opp }, { Undefined, 24 * 3600 },
            { 4 * 3600, Undefined }, { FALSE }, { "" }, { "" })
    \cup { Omitted }

InitSession ==
  \/ InitWith({ <<Who.a>> }, SessionOptions, SessionGames, BOOLEAN)
  \/ InitWith({ <<Who.a, Who.b>> }, SessionOptions, SessionGamesOfTwo, BOOLEAN)

SpecSession == InitSession /\ [][Next]_vars

\* Requests in session mode over games of every kind, all within one session.
CountGames ==
  [ s \in SubjectIds |->
      Pool({ "win", "loss", "other", "map", "pending", "team", "mates",
             "absent" }, { 1 }, s)
        \cup Pool({ "pending" }, { 5 }, s) ]

\* Without filters, and with a civilization and a map filter together.
CountOptions ==
  OptionsOf({ Undefined, Who.opp }, { Undefined }, { 4 * 3600 }, BOOLEAN,
            { "" }, { "" })
    \cup OptionsOf({ Undefined, Who.opp }, { Undefined }, { 4 * 3600 }, BOOLEAN,
                   { "english" }, { "arabia" })

InitCount == InitWith({ <<Who.a>> }, CountOptions, CountGames, { TRUE })

SpecCount == InitCount /\ [][Next]_vars

\* Requests with and without team games and an opponent, over 1v1 and
\* four-player games, completed and in progress, with the subject on the
\* first or the second team, beside the opponent, or not in the game.
TeamGames ==
  [ s \in SubjectIds |->
      Pool({ "win", "team", "teamloss", "teampending", "mates", "absent",
             "pendingother" }, { 1 }, s)
        \cup Pool({ "team" }, { 2 }, s) ]

TeamOptions ==
  OptionsOf({ Undefined, Who.opp }, { Undefined }, { 4 * 3600 }, BOOLEAN,
            { "" }, { "" })

InitTeam == InitWith({ <<Who.a>> }, TeamOptions, TeamGames, { TRUE })

SpecTeam == InitTeam /\ [][Next]_vars

\* Requests in session mode and with a window of one hour, over games in
\* progress that started 1, 2 and 5 hours ago, against the opponent or
\* someone else, with two or four participants, and completed games.
PendingGamesPool ==
  [ s \in SubjectIds |->
      Pool({ "pending" }, { 1, 2, 5 }, s)
        \cup Pool({ "win" }, { 1, 2 }, s)
        \cup Pool({ "pendingother", "teampending" }, { 1 }, s) ]

PendingOptions ==
  OptionsOf({ Undefined, Who.opp }, { Undefined, 3600 }, { 4 * 3600 },
            { FALSE }, { "" }, { "" })

InitPending ==
  InitWith({ <<Who.a>> }, PendingOptions, PendingGamesPool, BOOLEAN)

SpecPending == InitPending /\ [][Next]_vars

\* Requests in session mode with a gap of 4 hours, over 1v1 games 1 and 7
\* hours old and, 4 hours old, one game for every reason to skip a game.
GapGames ==
  [ s \in SubjectIds |->
      Pool({ "win" }, { 1, 7 }, s)
        \cup Pool({ "team", "absent", "mates", "pending", "pendingother",
                    "map", "other" }, { 4 }, s) ]

GapOptions ==
  OptionsOf({ Undefined, Who.opp }, { Undefined }, { 4 * 3600 }, { FALSE },
            { "" }, { "" })
    \cup OptionsOf({ Undefined, Who.opp }, { Undefined }, { 4 * 3600 },
                   { FALSE }, { "english" }, { "arabia" })

InitGap == InitWith({ <<Who.a>> }, GapOptions, GapGames, { TRUE })

SpecGap == InitGap /\ [][Next]_vars

\* Requests for one or two profiles in session mode, with an idle gap and
\* without one (a consumer that never stops by itself). Every await is
\* resumed in the end: the event loop runs each continuation that is ready,
\* and every fetch comes back.
LiveOptions ==
  OptionsOf({ Undefined }, { Undefined }, { 4 * 3600, Undefined }, { FALSE },
            { "" }, { "" })

InitLive ==
  InitWith({ <<Who.a>>, <<Who.a, Who.b>> }, LiveOptions, MergeGames, { TRUE })

SpecLive == InitLive /\ [][Next]_vars /\ WF_vars(Next)

\* Requests to the win-rate handler: a query of an optional subject, an
\* optional "vs" part and optional suffixes, a format, a player parameter,
\* a timespan parameter; the subject's history holds up to MaxGames games.
HandlerGames == [ s \in SubjectIds |-> Pool({ "win" }, { 1 }, s) ]

Queries ==
  { subject \o versus \o civ \o map \o last :
      subject \in { << >>, << "p" >>, << "q" >> },
      versus \in { << >>, << "vs", "o" >>, << "vs", "q" >> },
      civ \in { << >>, << "with", "english" >>, << "with", "badciv" >> },
      map \in { << >>, << "on", "arabia" >>, << "on", "badmap" >> },
      last \in { << >>, << "last", "2", "days" >>, << "last", "2", "foo" >>,
                 << "last", "session" >> } }

Requests ==
  [ query : Queries, format : { "text", "bad" },
    player : { << >>, << "1" >>, << "1", "x" >>, << "x" >> },
    timespan : { "", "24" }, idletime : { "" } ]

InitHandler ==
  /\ request \in Requests
  /\ res = ""
  /\ hpc = "start"
  /\ hplayer = NullRef
  /\ player = << >>
  /\ options = Omitted
  /\ honoursSince = TRUE
  /\ \E h \in Histories(HandlerGames[Who.a], MaxGames) :
       history = [ p \in SubjectIds |-> IF p = Who.a THEN h ELSE << >> ]
  /\ apc = "idle"
  /\ args = [ profileIds |-> << >>, opponentProfileId |-> Undefined,
              since |-> Undefined ]
  /\ stats = InitialStats
  /\ lastgame = 0
  /\ pendingGames = 0
  /\ pendingGame = Undefined
  /\ game = GameAt(0, 0, "", << >>)
  /\ gpc = "idle"
  /\ states = << >>
  /\ i = 1
  /\ firstIdx = 0
  /\ fetchLog = << >>
  /\ yielded = << >>
  /\ pulls = 0
  /\ processed = << >>

SpecHandler == InitHandler /\ [][NextHandler]_vars

(***************************************************************************)
(* Properties of the multiplexer                                           *)
(***************************************************************************)
\* The games yielded from states[k], in the order they were yielded.
RECURSIVE Projection(_, _)
Projection(ys, k) ==
  IF ys = << >> THEN << >>
  ELSE IF Head(ys).src = k
         THEN << Head(ys).game >> \o Projection(Tail(ys), k)
         ELSE Projection(Tail(ys), k)

\* The history the upstream serves for the k-th requested profile under the
\* filters the generator was called with.
ServedTo(k) ==
  LET req == Request(args.profileIds[k], args.opponentProfileId, args.since, 1)
  IN  Served(req.profile_id, req.opponent_profile_id, req.since)

\* The call names a profile id that is not an integer, or an opponent id that
\* is present (truthy) and not an integer.
MalformedCall ==
  \/ \E k \in 1..Len(args.profileIds) : ~IsInteger(args.profileIds[k])
  \/ Truthy(args.opponentProfileId) /\ ~IsInteger(args.opponentProfileId)

FetchFailed == \E k \in 1..Len(states) : ~Readable(states[k])

\* C1. Merge ordering: the games yielded so far are non-increasing in
\* started_at, across profiles and page boundaries (every profile's pages
\* are served newest first).
C1_MergeOrdering ==
  \A k \in 1..(Len(yielded) - 1) :
    yielded[k].game.started_at >= yielded[k + 1].game.started_at

\* Two profiles, one of them past its first page, interleaved, with games of
\* different age.
C1_Witness ==
  /\ Len(yielded) >= 4
  /\ \E k \in 1..Len(states) : Readable(states[k]) /\ states[k].page = 2
  /\ \E j, k \in 1..Len(yielded) :
       /\ j < k
       /\ yielded[j].src > yielded[k].src
       /\ yielded[j].game.started_at > yielded[k].game.started_at
  /\ \E j, k \in 1..Len(yielded) :
       /\ j < k
       /\ yielded[j].src < yielded[k].src
       /\ yielded[j].game.started_at > yielded[k].game.started_at

\* C2. Merge completeness: when the generator has run to its end after valid
\* arguments, the games yielded from each profile are exactly the history
\* served for that profile, in its order: none lost, none repeated.
C2_MergeComplete ==
  (gpc = "done" /\ ~MalformedCall)
    => \A k \in 1..Len(args.profileIds) : Projection(yielded, k) = ServedTo(k)

\* A drained enumeration of two profiles, one of them with a second page.
C2_Witness ==
  /\ gpc = "done"
  /\ Len(args.profileIds) = 2
  /\ Len(yielded) > PageSize + 1
  /\ \E k \in 1..Len(states) : states[k].page = 2 /\ Len(states[k].games) > 0

\* C3. On-demand fetching: a request for a page after the first is sent only
\* when the profile's current page has been yielded to its last game, and
\* every request is sent while the consumer waits for an element.
C3_OnDemand ==
  [][ \A n \in (Len(fetchLog) + 1)..Len(fetchLog') :
        /\ pulls > Len(yielded)
        /\ fetchLog'[n].page > 1 =>
             \E k \in 1..Len(states) :
               /\ Readable(states[k])
               /\ states[k].profile_id = fetchLog'[n].profile_id
               /\ states[k].page + 1 = fetchLog'[n].page
               /\ states[k].index = Len(states[k].games)
               /\ Len(Projection(yielded, k)) =
                    states[k].offset + Len(states[k].games) ]_vars

\* A second page was requested after both games of the first were yielded.
C3_Witness ==
  /\ \E n \in 1..Len(fetchLog) : fetchLog[n].page = 2
  /\ Len(yielded) >= PageSize
  /\ Len(args.profileIds) = 2

\* C4. Degraded profile: a failed fetch (null, or a payload without games)
\* exhausts that profile only; no error is raised, and a drained enumeration
\* holds the served history of every profile whose fetches succeeded.
C4_DegradedProfile ==
  FetchFailed =>
    /\ gpc # "threw"
    /\ apc # "rejected"
    /\ gpc = "done" =>
         \A k \in 1..Len(states) :
           Readable(states[k]) => Projection(yielded, k) = ServedTo(k)

\* C5 as stated: invalid arguments make the enumeration fail with an
\* error, with nothing yielded and nothing fetched.
C5_FailsWithInvalidArgument ==
  (gpc \notin { "idle", "start", "begin" }
     /\ MalformedCall)
    => (gpc = "threw" /\ yielded = << >> /\ fetchLog = << >>)

\* C5 as amended: with a profile id that is not an integer, or a truthy
\* opponent id that is not an integer, the generator ends at once without an
\* error, as an empty sequence: nothing is yielded and nothing is fetched.
C5_InvalidArgumentsEndQuietly ==
  (gpc # "idle" /\ MalformedCall)
    => /\ gpc \in { "start", "begin", "done" }
       /\ apc # "rejected"
       /\ yielded = << >>
       /\ fetchLog = << >>

\* A rejected call that also names a valid profile with games to serve.
C5_Witness ==
  /\ gpc = "done"
  /\ MalformedCall
  /\ \E k \in 1..Len(args.profileIds) :
       IsInteger(args.profileIds[k]) /\ history[args.profileIds[k]] # << >>

(***************************************************************************)
(* Properties of the aggregator                                            *)
(***************************************************************************)
YieldedGames == [ k \in 1..Len(yielded) |-> yielded[k].game ]

\* The games the loop body has looked at: all yielded ones, but for the one
\* in hand.
Examined ==
  IF apc = "body" THEN SubSeq(YieldedGames, 1, Len(yielded) - 1)
  ELSE YieldedGames

WalkEnded == apc \in { "finish", "returned" }

Seats(g) ==
  UNION { { <<t, k>> : k \in 1..Len(g.teams[t]) } : t \in 1..Len(g.teams) }

SubjectOf(g) ==
  CHOOSE p \in UNION { Range(g.teams[t]) : t \in 1..Len(g.teams) } :
    p.profile_id \in Range(player)

\* A game that counts: completed, within the team-size filter, with the
\* subject in it, with the opponent (when given) on a team without the
\* subject, and matching the civilization and map filters when set.
Qualifies(g) ==
  /\ g.duration > 0
  /\ Cardinality(Seats(g)) <= 2 \/ Opts.includeTeamGames
  /\ \E s \in Seats(g) : g.teams[s[1]][s[2]].profile_id \in Range(player)
  /\ Truthy(Opts.opponent) =>
       \E t \in 1..Len(g.teams) :
         /\ \E k \in 1..Len(g.teams[t]) : g.teams[t][k].profile_id = Opts.opponent
         /\ \A k \in 1..Len(g.teams[t]) : g.teams[t][k].profile_id \notin Range(player)
  /\ Opts.civ # "" => SubjectOf(g).civilization = Opts.civ
  /\ Opts.map # "" => g.map = Opts.map

RECURSIVE TotalDuration(_)
TotalDuration(gs) ==
  IF gs = << >> THEN 0 ELSE Head(gs).duration + TotalDuration(Tail(gs))

WithResult(gs, result) ==
  Cardinality({ k \in 1..Len(gs) : SubjectOf(gs[k]).result = result })

\* The first position of ys whose game started more than idle seconds
\* before the game in front of it; Len(ys) + 1 when there is none.
FirstGap(ys, idle) ==
  LET gaps == { k \in 2..Len(ys) :
                  ys[k - 1].started_at - ys[k].started_at > idle * 1000 }
  IN  IF gaps = { } THEN Len(ys) + 1
      ELSE CHOOSE k \in gaps : \A j \in gaps : k <= j

C6_Example ==
  << MkGame("win", Who.a, 1), MkGame("win", Who.a, 2), MkGame("win", Who.a, 7) >>

\* C6. Session boundary: without a timespan (null, 0 and NaN all count as
\* not set) and with a numeric idle gap, the walk stops at the first game
\* that started more than the idle gap before its predecessor; the games
\* before it, and only they, are taken in, the newest game never stops the
\* walk, nothing is pulled after the stop, and without a stop the sequence
\* is drained. Games at T, T-1h and T-6h with a 4h gap give games_count = 2.
C6_SessionBoundary ==
  (~Truthy(Opts.timespan) /\ Truthy(Opts.idletime)) =>
    LET ys == Examined
        cut == FirstGap(ys, Opts.idletime)
    IN  /\ processed = SubSeq(ys, 1, cut - 1)
        /\ cut >= Len(ys)
        /\ cut = Len(ys) => (WalkEnded /\ gpc = "closed")
        /\ (WalkEnded /\ cut > Len(ys)) => gpc = "done"
        /\ WalkEnded =>
             stats.games_count = Len(SelectSeq(SubSeq(ys, 1, cut - 1), Qualifies))
        /\ (apc = "returned" /\ player = <<Who.a>> /\ history[Who.a] = C6_Example
              /\ Opts.idletime = 4 * 3600)
             => stats.games_count = 2

C6_Witness ==
  /\ apc = "returned"
  /\ ~Truthy(Opts.timespan)
  /\ Opts.idletime = 4 * 3600
  /\ player = <<Who.a>>
  /\ history[Who.a] = C6_Example
  /\ Len(yielded) = 3
  /\ Len(processed) = 2
  /\ stats.games_count = 2

\* C7. Explicit window: with a timespan, exactly the games whose age does not
\* exceed it are taken in, whatever the gaps between them; the walk stops at
\* the first older game and is drained when there is none.
C7_ExplicitWindow ==
  Truthy(Opts.timespan) =>
    LET ys == Examined
        InWindow(g) == Now - g.started_at <= Opts.timespan * 1000
    IN  /\ processed = SelectSeq(ys, InWindow)
        /\ \A k \in 1..(Len(ys) - 1) : InWindow(ys[k])
        /\ (ys # << >> /\ ~InWindow(ys[Len(ys)])) => (WalkEnded /\ gpc = "closed")
        /\ (WalkEnded /\ (ys = << >> \/ InWindow(ys[Len(ys)]))) => gpc = "done"
        /\ WalkEnded =>
             stats.games_count = Len(SelectSeq(SelectSeq(ys, InWindow), Qualifies))

\* A 24h window: games 1h and 7h old are counted although 6h apart, and the
\* game 30h old ends the walk.
C7_Witness ==
  /\ apc = "returned"
  /\ Opts.timespan = 24 * 3600
  /\ Opts.idletime = 4 * 3600
  /\ Len(yielded) = 3
  /\ yielded[1].game.started_at = Now - HourMs
  /\ yielded[2].game.started_at = Now - 7 * HourMs
  /\ yielded[3].game.started_at = Now - 30 * HourMs
  /\ Len(processed) = 2
  /\ stats.games_count = 2

\* C8. Counting: at every point of the walk, games_count, duration,
\* wins_count and losses_count are the number, the total duration and the
\* numbers of wins and losses of the subject over the games taken in that
\* qualify, first_game_at and last_game_at are the start of the last and the
\* end of the first of them; any other game leaves all six unchanged.
C8_Counting ==
  LET counted == SelectSeq(processed, Qualifies)
  IN  /\ stats.games_count = Len(counted)
      /\ stats.duration = TotalDuration(counted)
      /\ stats.wins_count = WithResult(counted, "win")
      /\ stats.losses_count = WithResult(counted, "loss")
      /\ stats.first_game_at =
           IF counted = << >> THEN 0 ELSE counted[Len(counted)].started_at
      /\ stats.last_game_at =
           IF counted = << >> THEN 0
           ELSE counted[1].started_at + counted[1].duration * 1000

\* A walk over a game in progress, a game with an undetermined result and
\* a lost game, of which two count.
C8_Witness ==
  /\ apc = "returned"
  /\ Len(processed) = 3
  /\ \E k \in 1..3 : processed[k].duration = 0
  /\ stats.games_count = 2
  /\ stats.wins_count = 0
  /\ stats.losses_count = 1
  /\ stats.duration = 1800 + 600

\* round(1000 * W / (W + L)): the integer within one half of the quotient,
\* a half rounding up.
IsRounded(r, W, L) ==
  /\ 2 * r * (W + L) <= 2000 * W + (W + L)
  /\ 2 * r * (W + L) > 2000 * W - (W + L)

\* The arithmetic of handlers.js:137-139 for all counters up to MaxCount.
WinRateTable ==
  \A W \in 0..MaxCount : \A L \in 0..MaxCount :
    LET r == WinRate([ InitialStats EXCEPT !.wins_count = W,
                                           !.losses_count = L ])
    IN  IF L = 0 THEN r = 1000 ELSE IsRounded(r, W, L)

\* C9. Derived win rate (in tenths of a percent): on return it is 100 when no
\* counted game was lost, and otherwise 1000 * W / (W + L) rounded, over
\* the counted wins W and losses L, undetermined results left out; the same
\* holds of the arithmetic for all counters up to MaxCount (7:3 gives 70.0,
\* 1:2 gives 33.3).
C9_WinRate ==
  /\ apc = "returned" =>
       LET counted == SelectSeq(processed, Qualifies)
           W == WithResult(counted, "win")
           L == WithResult(counted, "loss")
       IN  IF L = 0 THEN stats.win_rate = 1000
           ELSE IsRounded(stats.win_rate, W, L)
  /\ WinRateTable
  /\ WinRate([ InitialStats EXCEPT !.wins_count = 7, !.losses_count = 3 ]) = 700
  /\ WinRate([ InitialStats EXCEPT !.wins_count = 1, !.losses_count = 2 ]) = 333

\* One win, two losses.
C9_Witness ==
  /\ apc = "returned"
  /\ stats.wins_count = 1
  /\ stats.losses_count = 2
  /\ stats.win_rate = 333

\* C10. Opponent filter push-down: every request carries the opponent's id
\* when a timespan is set and no opponent filter otherwise; in session mode
\* a drained enumeration is each profile's whole history, games against
\* others included.
C10_OpponentPushDown ==
  /\ \A n \in 1..Len(fetchLog) :
       fetchLog[n].opponent_profile_id =
         IF Truthy(Opts.timespan) THEN Opts.opponent ELSE Undefined
  /\ (~Truthy(Opts.timespan) /\ gpc = "done") =>
       \A k \in 1..Len(player) : Projection(yielded, k) = history[player[k]]

\* Session mode with an opponent: two pages fetched without a filter, a game
\* against someone else in the stream, a game against the opponent counted.
C10_Witness ==
  /\ ~Truthy(Opts.timespan)
  /\ Opts.opponent = Who.opp
  /\ \E n \in 1..Len(fetchLog) : fetchLog[n].page = 2
  /\ \E k \in 1..Len(yielded) : ~HasPlayer(yielded[k].game, Who.opp)
  /\ apc = "returned"
  /\ stats.games_count >= 1

\* More than two participants over all teams.
IsTeamGame(g) == Cardinality(Seats(g)) > 2

\* The subject takes part, and the opponent (when one is given) is on a team
\* without the subject.
Matched(g) ==
  /\ \E s \in Seats(g) : g.teams[s[1]][s[2]].profile_id \in Range(player)
  /\ Truthy(Opts.opponent) =>
       \E t \in 1..Len(g.teams) :
         /\ \E k \in 1..Len(g.teams[t]) : g.teams[t][k].profile_id = Opts.opponent
         /\ \A k \in 1..Len(g.teams[t]) : g.teams[t][k].profile_id \notin Range(player)

\* A completed game that counts whatever its size.
Eligible(g) ==
  /\ g.duration > 0
  /\ Matched(g)
  /\ Opts.civ # "" => SubjectOf(g).civilization = Opts.civ
  /\ Opts.map # "" => g.map = Opts.map

\* A game in progress that started less than three hours before now.
PendingTracked(g) ==
  /\ g.duration = 0
  /\ Matched(g)
  /\ Now - g.started_at < 3 * HourMs

\* C11. Team filter: without includeTeamGames the games of more than two
\* participants add nothing to games_count, wins_count, losses_count and
\* the pending count; with it they are counted like any other game, and the
\* win or loss recorded is the result of the subject's own entry.
C11_TeamFilter ==
  LET Small(g) == ~IsTeamGame(g)
      taken == IF Opts.includeTeamGames THEN processed
               ELSE SelectSeq(processed, Small)
      counted == SelectSeq(taken, Eligible)
  IN  /\ stats.games_count = Len(counted)
      /\ stats.wins_count = WithResult(counted, "win")
      /\ stats.losses_count = WithResult(counted, "loss")
      /\ pendingGames = Len(SelectSeq(taken, PendingTracked))
      /\ apc = "returned" => stats.pending_games = pendingGames

\* With includeTeamGames: a four-player game lost on the second team, one
\* won on the first team and one in progress, all taken in.
C11_Witness ==
  /\ apc = "returned"
  /\ Opts.includeTeamGames
  /\ processed = << MkGame("teamloss", Who.a, 1), MkGame("teampending", Who.a, 1),
                    MkGame("team", Who.a, 2) >>
  /\ stats.games_count = 2
  /\ stats.wins_count = 1
  /\ stats.losses_count = 1
  /\ stats.pending_games = 1

\* C12. Pending games: the pending count is the number of games in progress
\* taken in before the stop that started less than 3 hours before now (and
\* that pass the team-size and participation filters), the remembered start
\* is that of the first, the most recent, of them, and is unset when there
\* is none; a game in progress never counts as a game, and one that started
\* more than 3 hours ago counts nowhere. One game in progress started 1 hour
\* ago gives pending_games = 1 and its start; one started 5 hours ago gives 0.
C12_PendingGames ==
  LET Tracked(g) == PendingTracked(g) /\ (~IsTeamGame(g) \/ Opts.includeTeamGames)
      tracked == SelectSeq(processed, Tracked)
      start == IF tracked = << >> THEN Undefined ELSE tracked[1].started_at
  IN  /\ pendingGames = Len(tracked)
      /\ pendingGame = start
      /\ \A k \in 1..Len(tracked) : tracked[k].started_at <= start
      /\ \A k \in 1..Len(processed) :
           processed[k].duration = 0 =>
             stats.games_count <= Len(processed) - 1
      /\ stats.games_count = Len(SelectSeq(processed, Qualifies))
      /\ apc = "returned" =>
           /\ stats.pending_games = Len(tracked)
           /\ stats.pending_game_started_at = start
           /\ history[Who.a] = << MkGame("pending", Who.a, 1) >> =>
                (stats.pending_games = 1
                   /\ stats.pending_game_started_at = Now - HourMs)
           /\ history[Who.a] = << MkGame("pending", Who.a, 5) >> =>
                (stats.pending_games = 0
                   /\ stats.pending_game_started_at = Undefined
                   /\ stats.games_count = 0)

\* Games in progress started 1, 2 and 5 hours ago, all taken in: two are
\* counted and the start remembered is that of the newest.
C12_Witness ==
  /\ apc = "returned"
  /\ processed = << MkGame("pending", Who.a, 1), MkGame("pending", Who.a, 2),
                    MkGame("pending", Who.a, 5) >>
  /\ stats.pending_games = 2
  /\ stats.pending_game_started_at = Now - HourMs
  /\ stats.games_count = 0

\* C13. Boundary timestamps: once a game is counted, first_game_at is the
\* start of the counted game met last, which is the oldest of them, and
\* last_game_at is the end (start plus duration) of the counted game met
\* first, which is the newest; this holds at every point of the walk, so
\* the one moves with every counted game and the other is set once. As
\* long as no game is counted both are zero.
C13_BoundaryTimestamps ==
  LET counted == SelectSeq(processed, Qualifies)
      n == Len(counted)
  IN  IF stats.games_count >= 1
        THEN /\ n >= 1
             /\ stats.first_game_at = counted[n].started_at
             /\ \A k \in 1..n : counted[k].started_at >= stats.first_game_at
             /\ stats.last_game_at =
                  counted[1].started_at + counted[1].duration * 1000
             /\ \A k \in 1..n : counted[k].started_at <= counted[1].started_at
        ELSE /\ n = 0
             /\ stats.first_game_at = 0
             /\ stats.last_game_at = 0

\* A game in progress, then completed games started 1 and 2 hours ago.
C13_Witness ==
  /\ apc = "returned"
  /\ processed = << MkGame("pending", Who.a, 1), MkGame("win", Who.a, 1),
                    MkGame("win", Who.a, 2) >>
  /\ stats.games_count = 2
  /\ stats.first_game_at = Now - 2 * HourMs
  /\ stats.last_game_at = Now - HourMs + 1200 * 1000

\* C14. Option defaults: a call without an idle gap (options omitted, or
\* given without the field) walks the session as with a gap of 14400
\* seconds, the games before the first larger gap being taken in and no
\* others; a call without includeTeamGames leaves games of more than two
\* participants out.
C14_OptionDefaults ==
  /\ (~Truthy(Opts.timespan) /\ ~Truthy(options.idletime)) =>
       LET ys == Examined
           cut == FirstGap(ys, 14400)
       IN  /\ processed = SubSeq(ys, 1, cut - 1)
           /\ cut >= Len(ys)
           /\ cut = Len(ys) => (WalkEnded /\ gpc = "closed")
  /\ ~options.includeTeamGames =>
       LET Small(g) == ~IsTeamGame(g)
       IN  stats.games_count =
             Len(SelectSeq(SelectSeq(processed, Small), Eligible))

\* Every requested profile's first page came back empty, with total_count 0.
NoGamesServed ==
  /\ Len(states) = Len(player)
  /\ Len(states) > 0
  /\ \A k \in 1..Len(states) :
       /\ Readable(states[k])
       /\ states[k].page = 1
       /\ states[k].games = << >>
       /\ states[k].total_count = 0

\* C15. No data: when every profile's first page is empty nothing is
\* yielded, the call does not fail, and whenever the call returns with
\* nothing yielded the result is the zero state: all counters, the duration
\* and both timestamps 0, no pending game, win_rate 100.
C15_NoData ==
  /\ NoGamesServed =>
       /\ yielded = << >>
       /\ gpc \in { "refill", "select", "done" }
       /\ apc \in { "next", "finish", "returned" }
  /\ (apc = "returned" /\ yielded = << >>) =>
       stats = [ games_count |-> 0, wins_count |-> 0, losses_count |-> 0,
                 first_game_at |-> 0, last_game_at |-> 0, win_rate |-> 1000,
                 duration |-> 0, pending_games |-> 0,
                 pending_game_started_at |-> Undefined ]

\* Two profiles without any game, both asked once.
C15_Witness ==
  /\ apc = "returned"
  /\ Len(player) = 2
  /\ NoGamesServed
  /\ Len(fetchLog) = 2
  /\ stats.win_rate = 1000
  /\ stats.pending_games = 0

C16_Skipped == { "team", "absent", "mates", "pending", "map", "other" }

\* C16. Gap bookkeeping precedes filtering: in session mode lastgame is the
\* start of the last game taken in, counted or skipped, and the walk stops
\* at the first game more than the idle gap older than the game consumed
\* just before it, counted or not. With a gap of 4 hours, a 1v1 game at T,
\* a skipped game at T-3h (a team game, a game without the subject, a game
\* beside the opponent, a game in progress, a game on another map or with
\* another civilization) and a 1v1 game at T-6h give games_count = 2;
\* without the skipped game the walk stops after the first game.
C16_GapBeforeFilter ==
  (~Truthy(Opts.timespan) /\ Truthy(Opts.idletime)) =>
    LET ys == Examined
        cut == FirstGap(ys, Opts.idletime)
        first == MkGame("win", Who.a, 1)
        third == MkGame("win", Who.a, 7)
    IN  /\ lastgame = IF processed = << >> THEN 0
                      ELSE processed[Len(processed)].started_at
        /\ processed = SubSeq(ys, 1, cut - 1)
        /\ (WalkEnded /\ gpc = "closed") =>
             lastgame - game.started_at > Opts.idletime * 1000
        /\ \A kind \in C16_Skipped :
             LET second == MkGame(kind, Who.a, 4)
             IN  (apc = "returned" /\ history[Who.a] = << first, second, third >>
                    /\ ~Qualifies(second))
                   => (stats.games_count = 2 /\ gpc = "done")
        /\ (apc = "returned" /\ history[Who.a] = << first, third >>)
             => (stats.games_count = 1 /\ gpc = "closed")

\* The example: a 1v1 game, a skipped four-player game 3 hours older and a
\* 1v1 game 3 hours older again, all taken in, two counted.
C16_Witness ==
  /\ apc = "returned"
  /\ ~Opts.includeTeamGames
  /\ Opts.idletime = 4 * 3600
  /\ processed = << MkGame("win", Who.a, 1), MkGame("team", Who.a, 4),
                    MkGame("win", Who.a, 7) >>
  /\ stats.games_count = 2
  /\ gpc = "done"

\* C17. Participation matching: a game in which none of the subject's ids
\* appears, or in which the opponent asked for is not on a team without the
\* subject, changes no counter, no timestamp and no pending-game tracking
\* when it is consumed; a game with subject and opponent on one team is
\* such a game.
C17_ParticipationMatching ==
  [][ /\ (apc = "body" /\ ~Matched(game)) =>
           (stats' = stats /\ pendingGames' = pendingGames
              /\ pendingGame' = pendingGame)
      /\ (apc = "body" /\ Truthy(Opts.opponent)
            /\ game = MkGame("mates", Who.a, 1)) =>
           (~Matched(game) /\ stats' = stats) ]_vars

\* With an opponent and team games included: a game beside the opponent, a
\* game without the subject and a game in progress against someone else,
\* all taken in, none counted or tracked.
C17_Witness ==
  /\ apc = "returned"
  /\ Opts.opponent = Who.opp
  /\ Opts.includeTeamGames
  /\ processed = << MkGame("mates", Who.a, 1), MkGame("absent", Who.a, 1),
                    MkGame("pendingother", Who.a, 1) >>
  /\ stats.games_count = 0
  /\ stats.pending_games = 0
  /\ stats.pending_game_started_at = Undefined

\* The pages asked of profile p, in the order of the requests.
PagesAsked(p) ==
  LET OfP(r) == r.profile_id = p
      reqs == SelectSeq(fetchLog, OfP)
  IN  [ n \in 1..Len(reqs) |-> reqs[n].page ]

\* C18. Page progression: the pages asked of each profile are 1, 2, 3, ...
\* in this order; every request carries the opponent and since filters of
\* the first; a page after the first is asked for a state whose page was
\* the one before and only while offset + index < total_count; and the
\* state that a delivered page replaces it with has index 0, the next page
\* number and the old offset plus the length of the old page as offset.
C18_PageProgression ==
  /\ [](\A n \in 1..Len(fetchLog) :
          /\ PagesAsked(fetchLog[n].profile_id) =
               [ k \in 1..Len(PagesAsked(fetchLog[n].profile_id)) |-> k ]
          /\ fetchLog[n].opponent_profile_id = fetchLog[1].opponent_profile_id
          /\ fetchLog[n].since = fetchLog[1].since)
  /\ [][ /\ (fetchLog = << >> /\ fetchLog' # << >>) =>
             /\ Len(fetchLog') = Len(args.profileIds)
             /\ \A n \in 1..Len(fetchLog') :
                  /\ fetchLog'[n].profile_id = args.profileIds[n]
                  /\ fetchLog'[n].page = 1
                  /\ Readable(states'[n]) =>
                       (states'[n].index = 0 /\ states'[n].offset = 0
                          /\ states'[n].page = 1)
         /\ (fetchLog # << >> /\ fetchLog' # fetchLog) =>
             /\ Len(fetchLog') = Len(fetchLog) + 1
             /\ \E k \in 1..Len(states) :
                  LET old == states[k]
                      new == states'[k]
                      req == fetchLog'[Len(fetchLog')]
                  IN  /\ Readable(old)
                      /\ req.profile_id = old.profile_id
                      /\ req.page = old.page + 1
                      /\ old.offset + old.index < old.total_count
                      /\ \A j \in 1..Len(states) : j # k => states'[j] = states[j]
                      /\ Readable(new) =>
                           /\ new.index = 0
                           /\ new.page = old.page + 1
                           /\ new.offset = old.offset + Len(old.games)
                           /\ new.profile_id = old.profile_id ]_vars

\* Two profiles asked with an opponent and a start date; one of them is on
\* its second page, which begins after the games of the first.
C18_Witness ==
  /\ Len(states) = 2
  /\ Len(fetchLog) = 3
  /\ fetchLog[3].page = 2
  /\ fetchLog[3].opponent_profile_id = Who.opp
  /\ Truthy(fetchLog[3].since)
  /\ \E k \in 1..2 :
       /\ Readable(states[k])
       /\ states[k].page = 2
       /\ states[k].offset = PageSize
       /\ Len(states[k].games) > 0

\* No state holds a game that was not yet yielded.
AllConsumed ==
  \A k \in 1..Len(states) :
    Readable(states[k]) /\ states[k].index >= Len(states[k].games)

\* C19. Termination: with finite histories and every step of the generator
\* and of the consumer taken in the end, never more games are yielded than
\* the requested profiles have, the generator ends exactly when it finds no
\* state with an unconsumed game, all of them being yielded by then, and
\* getPlayerWinRate ends in every case and, unless a fetch fails, with a
\* result.
C19_Termination ==
  /\ [](Len(yielded) <= Len(history[Who.a]) + Len(history[Who.b]))
  /\ []((gpc = "done" /\ ~MalformedCall) =>
          (AllConsumed
             /\ Len(yielded) = Len(history[Who.a]) + Len(history[Who.b])))
  /\ [][ (gpc = "select" /\ AllConsumed) => gpc' = "done" ]_vars
  /\ [][ gpc' = "done" => (gpc = "done" \/ MalformedCall \/ AllConsumed) ]_vars
  /\ <>(apc \in { "returned", "rejected" })
  /\ <>(FetchFailed \/ apc = "returned")

\* Two profiles with two pages each, drained to the last game by a consumer
\* that never stops by itself.
C19_Witness ==
  /\ apc = "returned"
  /\ gpc = "done"
  /\ Len(player) = 2
  /\ ~Truthy(Opts.idletime)
  /\ Len(history[Who.a]) > PageSize
  /\ Len(history[Who.b]) > PageSize
  /\ Len(yielded) = Len(history[Who.a]) + Len(history[Who.b])

\* The stopping rule has fired: a game was looked at and not taken in.
Stopped == Len(processed) < Len(Examined)

\* C20. Early abandonment: once the stopping rule has fired the walk is
\* over and the generator closed; from then on nothing is pulled, no
\* request is sent for any profile and nothing is yielded; the game that
\* stopped the walk changes nothing, and the counters returned are those
\* of the games yielded before it.
C20_EarlyAbandonment ==
  /\ [](Stopped =>
          /\ WalkEnded
          /\ gpc = "closed"
          /\ pulls = Len(yielded)
          /\ processed = SubSeq(YieldedGames, 1, Len(yielded) - 1))
  /\ [][ Stopped =>
           /\ pulls' = pulls
           /\ fetchLog' = fetchLog
           /\ yielded' = yielded
           /\ states' = states
           /\ gpc' = gpc ]_vars
  /\ [][ (~Stopped /\ Stopped') =>
           UNCHANGED << stats, pendingGames, pendingGame, lastgame >> ]_vars
  /\ []((Stopped /\ apc = "returned") =>
          LET counted == SelectSeq(processed, Qualifies)
          IN  /\ stats.games_count = Len(counted)
              /\ stats.duration = TotalDuration(counted)
              /\ stats.wins_count = WithResult(counted, "win")
              /\ stats.losses_count = WithResult(counted, "loss"))

\* Two profiles, the walk stopped at the third game yielded, while one
\* profile still has a page that was never asked for.
C20_Witness ==
  /\ apc = "returned"
  /\ gpc = "closed"
  /\ Stopped
  /\ Len(player) = 2
  /\ Len(yielded) = 3
  /\ Len(fetchLog) = 2
  /\ \E k \in 1..Len(states) :
       states[k].offset + Len(states[k].games) < states[k].total_count

(***************************************************************************)
(* Properties of the win-rate handler                                      *)
(***************************************************************************)
\* The handler is past its lookups with a formatter, without having
\* answered that the map, the civilization or the opponent is unknown, and
\* with no subject: `player` is null or its first element is.
NoSubjectResolved ==
  /\ hpc \in { "resolved", "awaiting", "done", "threw" }
  /\ request.format = "text"
  /\ res \notin { "Invalid formatter specified", "Invalid map specified",
                  "Invalid civ specified", "No player found for opponent" }
  /\ hplayer.isNull \/ ~hplayer.items[1].found

\* C21. Win-rate handler with no subject: with a formatter, the opponent
\* (when one is asked for) found and no subject resolved, the handler
\* never throws, never calls getPlayerWinRate, and the response it sends
\* is the error 'No player found'.
C21_NoSubjectHandled ==
  NoSubjectResolved =>
    /\ hpc \notin { "threw", "awaiting" }
    /\ apc = "idle"
    /\ hpc = "done" => res = "No player found"

====
